---- MODULE Spec2Model ----
(***************************************************************************)
(* Verification model of the PowerManagement repository.                   *)
(*                                                                         *)
(* Each subsystem has its own specification:                               *)
(*   SpecThermal  scripts/smart_thermal_manager.py  (one tick per step)    *)
(*   SpecFreq     src/frequency/universal_cpu_manager.py and               *)
(*                src/frequency/cpu_frequency_manager.py                   *)
(*   SpecConfig   src/config/power_config.py        (PowerConfig)          *)
(*   SpecMonitor  src/services/monitoring_service.py with the sensor       *)
(*                detector and the fan controller                          *)
(*   SpecLoops    the thermal loop and the monitoring loop side by side    *)
(*   SpecChecks   examples/ai_workloads: thermal_safety_check              *)
(*   SpecThreads  start_monitoring / stop_monitoring and the loop threads  *)
(*   SpecDaemon   daemons/custom-power-profiles-daemon.py: profile holds   *)
(* A specification leaves the variables of the other subsystems at their   *)
(* idle values.                                                            *)
(***************************************************************************)
EXTENDS Integers, Sequences, FiniteSets, TLC

VARIABLES
    \* ---- SmartThermalManager (scripts/smart_thermal_manager.py) ----
    comfort_temp,      \* self.comfort_temp
    warning_temp,      \* self.warning_temp
    critical_temp,     \* self.critical_temp
    emergency_temp,    \* self.emergency_temp
    current_mode,      \* self.current_mode
    escalation_count,  \* self.escalation_count
    lastOp,            \* the operation that produced this state
    lastTemp,          \* temp argument of the latest adaptive_thermal_response
    requested,         \* profile handed to set_power_profile by the latest operation
    applied,           \* whether that powerprofilesctl command exited with status 0
    niceLevel,         \* nice_level handed to throttle_ai_processes by the latest tick
    killed,            \* whether the latest tick ran emergency_kill_heavy_processes
    ticks,             \* ticks since construction (saturates at MaxTicks)
    steady,            \* every operation since construction was a tick at lastTemp
    \* ---- UniversalCPUManager / CPUFrequencyManager ----
    cpu_info,          \* HardwareDetector.cpu_info (CPUInfo)
    is_ci,             \* UniversalCPUManager.is_ci
    has_cpupower,      \* `which cpupower` exits 0 on this machine
    control_method,    \* UniversalCPUManager.control_method
    available_methods, \* CPUFrequencyManager.available_methods
    active_method,     \* CPUFrequencyManager.active_method
    freqCall,          \* outcome of the latest set_frequency call
    \* ---- PowerConfig ----
    thermal,           \* PowerConfig.thermal (ThermalConfig)
    frequency,         \* PowerConfig.frequency (FrequencyConfig or None)
    cfgOp,             \* the PowerConfig operation that produced this state
    \* ---- MonitoringService and the two loops ----
    sensors,           \* UniversalSensorDetector after __init__
    snapshots,         \* MonitoringService.snapshots, by timestamp
    json_log,          \* the file power_monitoring.json
    snapshot,          \* the snapshot of the loop's current tick
    arrived,           \* snapshots collected so far (the clock of timestamps)
    monitorPc,         \* where monitoring_loop is
    running,           \* MonitoringService.running
    stop_event,        \* MonitoringService.stop_event
    fanCalls,          \* the set_pwm_fan_speed calls of the latest step
    thermalPc,         \* where thermal_monitoring_loop is
    monitoring,        \* SmartThermalManager.monitoring
    status,            \* cpu_temp of the loop's latest get_system_status()
    \* ---- examples/ai_workloads: thermal_safety_check ----
    example,           \* which example class the object is
    checkPc,           \* where the outermost thermal_safety_check call is
    depth,             \* nested thermal_safety_check frames on the stack
    reading,           \* what get_cpu_temperature returned to the innermost frame
    verdict,           \* the value the outermost call returned, once it has
    \* ---- SmartThermalManager threads ----
    loopPc,            \* position of each thermal_monitoring_loop thread
    \* ---- CustomPowerProfilesDaemon ----
    holds,             \* self.holds
    hold_op            \* the latest HoldProfile / ReleaseProfile call

thermalVars == <<comfort_temp, warning_temp, critical_temp, emergency_temp,
                 current_mode, escalation_count, lastOp, lastTemp, requested,
                 applied, niceLevel, killed, ticks, steady>>
freqVars == <<cpu_info, is_ci, has_cpupower, control_method,
              available_methods, active_method, freqCall>>
configVars == <<thermal, frequency, cfgOp>>
monitorVars == <<sensors, snapshots, json_log, snapshot, arrived, monitorPc,
                 running, stop_event, fanCalls>>
thermalLoopVars == <<thermalPc, monitoring, status>>
serviceVars == <<monitorVars, thermalLoopVars>>
exampleVars == <<example, checkPc, depth, reading, verdict>>
daemonVars == <<holds, hold_op>>
otherVars == <<exampleVars, loopPc, daemonVars>>
vars == <<thermalVars, freqVars, configVars, serviceVars, otherVars>>

Max(a, b) == IF a >= b THEN a ELSE b
Min(a, b) == IF a <= b THEN a ELSE b

None == "none"

(***************************************************************************)
(* Bounds of the model.                                                    *)
(***************************************************************************)
\* escalation_count grows without bound in the warning band; ticks that
\* would push it past MaxEscalation are not explored.
MaxEscalation == 12
\* the tick counter saturates here
MaxTicks == 5
\* monitoring_loop takes at most this many snapshots
MaxMonitorTicks == 2

(***************************************************************************)
(* SmartThermalManager                                                     *)
(***************************************************************************)
PERFORMANCE == "performance"
BALANCED == "balanced"
POWER_SAVE == "power-saver"
EMERGENCY == "emergency"
PowerMode == {PERFORMANCE, BALANCED, POWER_SAVE, EMERGENCY}

\* Threshold sets <<comfort, warning, critical, emergency>>: the values
\* __init__ assigns, and the set used by the specification's examples (the
\* four thresholds are plain instance attributes).
DefaultThresholds == <<65, 70, 80, 83>>
ExampleThresholds == <<60, 75, 85, 95>>
ThresholdSets == {DefaultThresholds, ExampleThresholds}

\* Temperatures handed to a tick: 0 is what get_cpu_temperature returns when
\* every source fails; the others fall in every band of both threshold sets
\* and on their boundaries.
Temps == {0, 50, 64, 65, 72, 78, 80, 83, 90, 96}

\* set_power_profile: the recorded mode after `sudo powerprofilesctl set
\* <mode>`; ok is "the command returned exit status 0" (a non-zero status,
\* a timeout or any other exception leave the mode alone).
ProfileRecordedOnFailure(cur, mode, ok) == IF ok THEN cur ELSE mode
ProfileAlwaysRecorded(cur, mode, ok) == mode
set_power_profile(cur, mode, ok) == IF ok THEN mode ELSE cur

\* line 184: self.escalation_count = max(0, self.escalation_count - 1)
CoolDown(count) == Max(0, count - 1)

\* line 194: self.escalation_count += 1
EscalateDecrements(count) == count - 1
Escalate(count) == count + 1

\* line 196: if self.escalation_count <= 3
ProgressiveOffByOne(count) == count < 3
Progressive(count) == count <= 3

\* line 199: nice_level=10 + (self.escalation_count * 2)
ProgressiveNiceUnscaled(count) == 10 + count
ProgressiveNice(count) == 10 + (count * 2)

\* line 211: self.escalation_count = 10  # Max escalation
MaxEscalationSentinel == 10

\* The branch of adaptive_thermal_response a temperature selects.
BandWithoutHighRisk(temp) ==
    IF temp < comfort_temp THEN "comfort"
    ELSE IF temp < warning_temp THEN "preventive"
    ELSE IF temp < critical_temp THEN "warning"
    ELSE "emergency"
Band(temp) ==
    IF temp < comfort_temp THEN "comfort"
    ELSE IF temp < warning_temp THEN "preventive"
    ELSE IF temp < critical_temp THEN "warning"
    ELSE IF temp >= emergency_temp THEN "emergency"
    ELSE "high-risk"

\* What one call of adaptive_thermal_response(temp, _) leaves behind, ok
\* being the exit of the powerprofilesctl command if the call runs one.
Response(temp, ok) ==
    LET b == Band(temp)
        none == [mode |-> current_mode, count |-> escalation_count,
                 req |-> None, nice |-> -1, kill |-> FALSE]
    IN  CASE b = "comfort" ->
              IF current_mode = EMERGENCY
              THEN [none EXCEPT
                      !.mode = set_power_profile(current_mode, BALANCED, ok),
                      !.req = BALANCED,
                      !.count = CoolDown(escalation_count)]
              ELSE none
          [] b = "preventive" ->
              IF current_mode = PERFORMANCE
              THEN [none EXCEPT
                      !.mode = set_power_profile(current_mode, BALANCED, ok),
                      !.req = BALANCED,
                      !.nice = 5]
              ELSE none
          [] b = "warning" ->
              LET c == Escalate(escalation_count)
              IN  IF Progressive(c)
                  THEN [none EXCEPT
                          !.count = c,
                          !.mode = set_power_profile(current_mode, POWER_SAVE, ok),
                          !.req = POWER_SAVE,
                          !.nice = ProgressiveNice(c)]
                  ELSE [none EXCEPT
                          !.count = c,
                          !.mode = set_power_profile(current_mode, EMERGENCY, ok),
                          !.req = EMERGENCY,
                          !.nice = 19]
          [] b = "emergency" ->
              [none EXCEPT
                 !.mode = set_power_profile(current_mode, EMERGENCY, ok),
                 !.req = EMERGENCY,
                 !.kill = TRUE,
                 !.count = MaxEscalationSentinel]
          [] OTHER ->
              [none EXCEPT
                 !.mode = set_power_profile(current_mode, EMERGENCY, ok),
                 !.req = EMERGENCY,
                 !.nice = 19]

\* One tick of thermal_monitoring_loop: adaptive_thermal_response(temp, _).
adaptive_thermal_response(temp, ok) ==
    LET r == Response(temp, ok)
    IN  /\ Band(temp) = "warning" => escalation_count < MaxEscalation
        /\ current_mode' = r.mode
        /\ escalation_count' = r.count
        /\ requested' = r.req
        /\ applied' = (r.req # None /\ ok)
        /\ niceLevel' = r.nice
        /\ killed' = r.kill
        /\ lastOp' = "tick"
        /\ lastTemp' = temp
        /\ ticks' = Min(ticks + 1, MaxTicks)
        /\ steady' = (steady /\ (ticks = 0 \/ lastTemp = temp))
        /\ UNCHANGED <<comfort_temp, warning_temp, critical_temp, emergency_temp>>

\* set_power_profile called from outside the loop (the method is public).
RequestMode(mode, ok) ==
    /\ current_mode' = set_power_profile(current_mode, mode, ok)
    /\ requested' = mode
    /\ applied' = ok
    /\ lastOp' = "set_power_profile"
    /\ niceLevel' = -1
    /\ killed' = FALSE
    /\ steady' = FALSE
    /\ UNCHANGED <<comfort_temp, warning_temp, critical_temp, emergency_temp,
                   escalation_count, lastTemp, ticks>>

ThermalConstructed ==
    /\ current_mode = BALANCED
    /\ escalation_count = 0
    /\ lastOp = "init"
    /\ lastTemp = -1
    /\ requested = None
    /\ applied = FALSE
    /\ niceLevel = -1
    /\ killed = FALSE
    /\ ticks = 0
    /\ steady = TRUE

\* __init__ lines 34-37, th being <<comfort, warning, critical, emergency>>
Thresholds(th) ==
    /\ comfort_temp = th[1]
    /\ warning_temp = th[2]
    /\ critical_temp = th[3]
    /\ emergency_temp = th[4]

ThermalIdle ==
    /\ Thresholds(DefaultThresholds)
    /\ ThermalConstructed

(***************************************************************************)
(* HardwareDetector (src/hardware/hardware_detector.py)                    *)
(***************************************************************************)
INTEL == "intel"
AMD == "amd"
UNKNOWN == "unknown"
CORE2 == "core2"
NEHALEM == "nehalem"
SANDY_BRIDGE == "sandybridge"
SKYLAKE_PLUS == "skylake+"
K8 == "k8"
K10 == "k10"
BULLDOZER == "bulldozer"
ZEN == "zen"

\* <<vendor, generation>> pairs that _detect_cpu yields for the model names
\* "Intel(R) Core(TM)2 Quad" and "Intel(R) Core(TM) i7-8700", and for an
\* unreadable or unrecognised /proc/cpuinfo.
Identities == {<<INTEL, CORE2>>, <<INTEL, SKYLAKE_PLUS>>, <<UNKNOWN, UNKNOWN>>}

\* cpuinfo_min_freq / cpuinfo_max_freq contents (MHz) where cpufreq exists
CpufreqRanges == {<<1333, 2833>>}
\* "cpu MHz" of /proc/cpuinfo at detection time
CurrentFreqs == {2100, 3700}

\* _detect_frequency_range: src is "cpufreq" (both files read, r their
\* contents in MHz), "cpuinfo" (estimate from the current frequency cur),
\* "min_only" (cpuinfo_min_freq read, cpuinfo_max_freq not parsed and no
\* "cpu MHz" line: the minimum read so far is kept next to the default
\* maximum) or "default" (nothing readable).
detect_frequency_range(src, r, cur) ==
    CASE src = "cpufreq" -> r
      [] src = "cpuinfo" -> <<Max(cur, 2000) \div 3, Max(cur, 2000)>>
      [] src = "min_only" -> <<r[1], 3000>>
      [] OTHER -> <<800, 3000>>

\* _check_msr_support: modprobe is run with check=False, so only a missing
\* binary (or a timeout) raises; otherwise the device node decides.
check_msr_support(modprobe, msrDev) == modprobe # "missing" /\ msrDev

\* _get_thermal_max_safe
get_thermal_max_safe(vendor, generation) ==
    IF vendor = INTEL
    THEN IF generation = CORE2 THEN 85
         ELSE IF generation \in {NEHALEM, SANDY_BRIDGE} THEN 95
         ELSE 100
    ELSE IF vendor = AMD
    THEN IF generation \in {K8, K10} THEN 70
         ELSE IF generation = BULLDOZER THEN 75
         ELSE 95
    ELSE 85

\* _detect_cpu: the CPUInfo built from what the machine shows.
detect_cpu(id, cpufreq, modprobe, msrDev, src, r, cur) ==
    LET range == detect_frequency_range(src, r, cur)
    IN  [vendor |-> id[1],
         generation |-> id[2],
         min_freq_mhz |-> range[1],
         max_freq_mhz |-> range[2],
         supports_msr |-> check_msr_support(modprobe, msrDev),
         supports_cpufreq |-> cpufreq,
         thermal_max_safe |-> get_thermal_max_safe(id[1], id[2])]

(***************************************************************************)
(* UniversalCPUManager (src/frequency/universal_cpu_manager.py)            *)
(***************************************************************************)
\* CORE2_QUAD_MULTIPLIERS: MHz -> IA32_PERF_CTL value
CORE2_QUAD_MULTIPLIERS ==
    (2833 :> 1557) @@ (2666 :> 1300) @@ (2500 :> 1299) @@ (2333 :> 1298) @@
    (2166 :> 1041) @@ (2000 :> 1552) @@ (1833 :> 1295) @@ (1666 :> 1294) @@
    (1500 :> 1293) @@ (1333 :> 1036) @@ (1200 :> 1035)

Abs(x) == IF x < 0 THEN -x ELSE x

\* min(sorted(table), key=lambda x: abs(x - target)): the first of the
\* ascending keys at the least distance.
Closest(keys, target) ==
    CHOOSE k \in keys :
        \A j \in keys : \/ Abs(k - target) < Abs(j - target)
                        \/ (Abs(k - target) = Abs(j - target) /\ k <= j)

\* _select_control_method
select_control_method(ci, info, cpupower) ==
    IF ci THEN "CI_MODE"
    ELSE IF info.supports_cpufreq
    THEN IF info.generation = SKYLAKE_PLUS THEN "cpufreq_intel_pstate" ELSE "cpufreq"
    ELSE IF info.supports_msr THEN "msr"
    ELSE IF cpupower THEN "cpupower"
    ELSE "none"

\* line 252: target_freq = max(min_freq_mhz, min(target_freq, max_freq_mhz))
Clamp(target, info) == Max(info.min_freq_mhz, Min(target, info.max_freq_mhz))

\* the set of frequencies (MHz) a call wrote to the hardware: none
NoWrite == {}

\* set_frequency_cpufreq: the per-core sysfs writes either all succeed, fail
\* at the first open, or fail after some cores were written.
set_frequency_cpufreq(target, env) ==
    [result |-> env.cpufreq = "ok",
     written |-> IF env.cpufreq \in {"ok", "partial"} THEN {target} ELSE NoWrite]

\* set_frequency_msr: env.msr is "modprobe msr and wrmsr both exit 0 in time"
set_frequency_msr(target, info, env) ==
    IF info.generation # CORE2
    THEN [result |-> FALSE, written |-> NoWrite]
    ELSE LET closest_freq == Closest(DOMAIN CORE2_QUAD_MULTIPLIERS, target)
         IN  IF Abs(closest_freq - target) > 200
             THEN [result |-> FALSE, written |-> NoWrite]
             ELSE IF env.msr
             THEN [result |-> TRUE, written |-> {closest_freq}]
             ELSE [result |-> FALSE, written |-> NoWrite]

\* set_frequency_cpupower: env.cpupower is "cpupower frequency-set exits 0"
set_frequency_cpupower(target, env) ==
    [result |-> env.cpupower,
     written |-> IF env.cpupower THEN {target} ELSE NoWrite]

\* UniversalCPUManager.set_frequency
universal_set_frequency(target, env) ==
    IF is_ci
    THEN [result |-> TRUE, written |-> NoWrite, method |-> "CI_MODE"]
    ELSE LET t == Clamp(target, cpu_info)
             r == CASE control_method \in {"cpufreq", "cpufreq_intel_pstate"} ->
                         set_frequency_cpufreq(t, env)
                    [] control_method = "msr" -> set_frequency_msr(t, cpu_info, env)
                    [] control_method = "cpupower" -> set_frequency_cpupower(t, env)
                    [] OTHER -> [result |-> FALSE, written |-> NoWrite]
         IN  [result |-> r.result, written |-> r.written, method |-> control_method]

(***************************************************************************)
(* CPUFrequencyManager (src/frequency/cpu_frequency_manager.py)            *)
(***************************************************************************)
CPUFREQ == "cpufreq"
MSR == "msr"
CPUPOWER == "cpupower"
GRUB_FALLBACK == "grub"

\* self.q9550_multipliers: MHz -> IA32_PERF_CTL value
q9550_multipliers ==
    (2833 :> 1557) @@ (2500 :> 1299) @@ (2166 :> 1041) @@ (2000 :> 1552) @@
    (1833 :> 1295) @@ (1666 :> 1294) @@ (1500 :> 1293) @@ (1333 :> 1036)

\* detect_available_methods: modprobe runs with check=True here, so a
\* non-zero exit drops the MSR method as well.
detect_available_methods(cpufreq, modprobe, msrDev, cpupower) ==
    (IF cpufreq THEN <<CPUFREQ>> ELSE <<>>)
    \o (IF modprobe = "ok" /\ msrDev THEN <<MSR>> ELSE <<>>)
    \o (IF cpupower THEN <<CPUPOWER>> ELSE <<>>)
    \o <<GRUB_FALLBACK>>

\* What one method of CPUFrequencyManager does with target_freq: cpufreq
\* writes cpu0's governor and then scaling_setspeed, MSR needs the exact
\* table key, cpupower passes the target on.
legacy_method(method, target, env) ==
    CASE method = CPUFREQ ->
           [result |-> env.cpufreq = "ok",
            written |-> IF env.cpufreq = "ok" THEN {target} ELSE NoWrite]
      [] method = MSR ->
           IF target \in DOMAIN q9550_multipliers /\ env.msr
           THEN [result |-> TRUE, written |-> {target}]
           ELSE [result |-> FALSE, written |-> NoWrite]
      [] method = CPUPOWER -> set_frequency_cpupower(target, env)
      [] OTHER -> [result |-> FALSE, written |-> NoWrite]

\* CPUFrequencyManager.set_frequency: the for loop over available_methods
\* from position i, returning at the first method that reports success.
RECURSIVE legacy_from(_, _, _, _)
legacy_from(methods, i, target, env) ==
    IF i > Len(methods)
    THEN [result |-> FALSE, written |-> NoWrite, method |-> None]
    ELSE LET r == legacy_method(methods[i], target, env)
         IN  IF r.result
             THEN [result |-> TRUE, written |-> r.written, method |-> methods[i]]
             ELSE legacy_from(methods, i + 1, target, env)

legacy_set_frequency(target, env) == legacy_from(available_methods, 1, target, env)

(***************************************************************************)
(* Frequency actions                                                       *)
(***************************************************************************)
\* set_frequency arguments (MHz)
Targets == {500, 2100, 2833, 5000}
\* What the machine answers to one call: the sysfs writes, modprobe+wrmsr,
\* and the cpupower command.
Envs == [cpufreq : {"ok", "denied", "partial"}, msr : BOOLEAN, cpupower : BOOLEAN]

NoCall == [manager |-> None, target |-> 0, env |-> [cpufreq |-> "ok", msr |-> TRUE, cpupower |-> TRUE],
           result |-> FALSE, written |-> NoWrite, method |-> None]

UniversalSetFrequency(target, env) ==
    LET r == universal_set_frequency(target, env)
    IN  /\ freqCall' = [manager |-> "universal", target |-> target, env |-> env,
                        result |-> r.result, written |-> r.written, method |-> r.method]
        /\ UNCHANGED <<cpu_info, is_ci, has_cpupower, control_method,
                       available_methods, active_method>>

LegacySetFrequency(target, env) ==
    LET r == legacy_set_frequency(target, env)
    IN  /\ freqCall' = [manager |-> "legacy", target |-> target, env |-> env,
                        result |-> r.result, written |-> r.written, method |-> r.method]
        /\ active_method' = IF r.result THEN r.method ELSE active_method
        /\ UNCHANGED <<cpu_info, is_ci, has_cpupower, control_method, available_methods>>

\* Both managers constructed on one machine.
FreqConstructed(id, cpufreq, modprobe, msrDev, cpupower, ci, src, r, cur) ==
    /\ cpu_info = detect_cpu(id, cpufreq, modprobe, msrDev, src, r, cur)
    /\ is_ci = ci
    /\ has_cpupower = cpupower
    /\ control_method = select_control_method(ci, cpu_info, cpupower)
    /\ available_methods = detect_available_methods(cpufreq, modprobe, msrDev, cpupower)
    /\ active_method = None
    /\ freqCall = NoCall

FreqIdle ==
    FreqConstructed(<<UNKNOWN, UNKNOWN>>, FALSE, "missing", FALSE, FALSE, FALSE,
                    "default", <<800, 3000>>, 0)

(***************************************************************************)
(* PowerConfig (src/config/power_config.py)                                *)
(***************************************************************************)
\* ThermalConfig(): the dataclass defaults
ThermalDefaults == [comfort_temp |-> 65, warning_temp |-> 70,
                    critical_temp |-> 80, emergency_temp |-> 85]
ThermalKeys == {"comfort_temp", "warning_temp", "critical_temp", "emergency_temp"}

\* int(max_safe_temp * p / 100) for p in 65, 75, 85, 95: the float product
\* truncates to the integer quotient for every temperature of the table.
Percent(x, p) == (x * p) \div 100

\* set_thermal_config
set_thermal_config(max_safe_temp) ==
    [comfort_temp |-> Percent(max_safe_temp, 65),
     warning_temp |-> Percent(max_safe_temp, 75),
     critical_temp |-> Percent(max_safe_temp, 85),
     emergency_temp |-> Percent(max_safe_temp, 95)]

\* The values _get_thermal_max_safe can return
DetectedThermalMax == {70, 75, 85, 95, 100}

\* int(freq_range * 0.7): 0.7 is the double just below 7/10, so for the
\* ranges listed here the rounded product stays below the integer 7r/10 and
\* int() truncates to one less than the exact quotient; for every other
\* range in 0..4000 MHz the two agree.
FloatShortOfSeventy ==
    {90, 170, 180, 330, 340, 350, 360} \cup {650 + 10 * i : i \in 0..8}
    \cup {1290 + 10 * i : i \in 0..17} \cup {2570 + 10 * i : i \in 0..35}
IntSeventy(r) ==
    IF r \in FloatShortOfSeventy THEN ((r * 7) \div 10) - 1 ELSE (r * 7) \div 10

\* set_frequency_config with the balanced point not anchored at min_freq
set_frequency_config_unanchored(min_freq, max_freq) ==
    LET freq_range == max_freq - min_freq
    IN  [min_freq_mhz |-> min_freq,
         max_freq_mhz |-> max_freq,
         performance_freq |-> max_freq,
         balanced_freq |-> IntSeventy(freq_range),
         powersave_freq |-> min_freq + (freq_range \div 2),
         emergency_freq |-> min_freq]

\* set_frequency_config; int(freq_range * 0.5) is exact in binary floating
\* point and equals the integer quotient
set_frequency_config(min_freq, max_freq) ==
    LET freq_range == max_freq - min_freq
    IN  [min_freq_mhz |-> min_freq,
         max_freq_mhz |-> max_freq,
         performance_freq |-> max_freq,
         balanced_freq |-> min_freq + IntSeventy(freq_range),
         powersave_freq |-> min_freq + (freq_range \div 2),
         emergency_freq |-> min_freq]

\* What _detect_frequency_range hands to set_frequency_config
\* (UniversalCPUManager.__init__): the cpufreq files' contents, the estimate
\* from the current frequency, or the defaults.
DetectedRanges ==
    {detect_frequency_range(src, r, cur) :
        src \in {"cpufreq", "cpuinfo", "min_only", "default"},
        r \in {<<800, 800>>, <<800, 890>>, <<1200, 3000>>, <<1333, 2833>>},
        cur \in {1600, 2100, 3700}}

\* Threshold values found in a configuration file
FileTemps == {50, 70, 90}
\* The "thermal" object of a configuration file: any of the four keys, each
\* with a value.
ThermalObjects ==
    UNION {[ks -> FileTemps] : ks \in SUBSET ThermalKeys}
\* The "frequency" object of a configuration file: six integers, taken as
\* they are.  An object with a key missing raises after the thermal object
\* has been taken, which leaves the same state as no "frequency" object.
FrequencyObjects ==
    {[present |-> FALSE, cfg |-> <<>>]}
    \cup {[present |-> TRUE, cfg |-> c] : c \in
        {[min_freq_mhz |-> 1200, max_freq_mhz |-> 3000, performance_freq |-> 3000,
          balanced_freq |-> 2460, powersave_freq |-> 2100, emergency_freq |-> 1200],
         [min_freq_mhz |-> 1200, max_freq_mhz |-> 3000, performance_freq |-> 2000,
          balanced_freq |-> 2500, powersave_freq |-> 3000, emergency_freq |-> 800]}}
\* A configuration file: "bad" is unreadable, not JSON, or holds an unknown
\* thermal key; "absent" has no "thermal" object; "thermal" has the object obj.
\* freq is its "frequency" object.
ConfigFiles ==
    {[kind |-> k, obj |-> <<>>, freq |-> f] :
        k \in {"bad", "absent"}, f \in FrequencyObjects}
    \cup {[kind |-> "thermal", obj |-> o, freq |-> f] :
        o \in ThermalObjects, f \in FrequencyObjects}

\* load: ThermalConfig(**config_data["thermal"]) takes the file's keys and
\* the dataclass defaults for the rest, without looking at their order.
load(cur, file) ==
    IF file.kind # "thermal"
    THEN cur
    ELSE [k \in ThermalKeys |->
            IF k \in DOMAIN file.obj THEN file.obj[k] ELSE ThermalDefaults[k]]

SetThermalConfig(t) ==
    /\ thermal' = set_thermal_config(t)
    /\ cfgOp' = "set_thermal_config"
    /\ UNCHANGED frequency

\* load, the "frequency" part: reached only when the parts before it did not
\* raise
load_frequency(cur, file) ==
    IF file.kind # "bad" /\ file.freq.present THEN file.freq.cfg ELSE cur

Load(file) ==
    /\ thermal' = load(thermal, file)
    /\ frequency' = load_frequency(frequency, file)
    /\ cfgOp' = "load"

SetFrequencyConfig(min_freq, max_freq) ==
    /\ frequency' = set_frequency_config(min_freq, max_freq)
    /\ cfgOp' = "set_frequency_config"
    /\ UNCHANGED thermal

ConfigConstructed ==
    /\ thermal = ThermalDefaults
    /\ frequency = None
    /\ cfgOp = "init"

ConfigIdle == ConfigConstructed

(***************************************************************************)
(* UniversalSensorDetector (src/sensors/universal_sensor_detector.py)      *)
(***************************************************************************)
\* An Optional[...] field: <<>> is None, <<v>> holds v.  Python's "if x:" on
\* such a field is false for None and for 0.
Truthy(opt) == opt # <<>> /\ opt[1] # 0

\* _detect_all_sensors runs the backends in this order
Backends == <<"lm_sensors", "hwmon", "thermal_zones", "acpi">>

\* What each backend appends when nothing fails: the sensors command shows
\* the package temperature and a fan; the hwmon tree holds two coretemp chips
\* (one per socket) with the same label, a power reading and a voltage; one
\* thermal zone; one battery.  Values are in whole units.
Readings ==
    [lm_sensors |->
        <<[type |-> "temperature", chip |-> "coretemp-isa-0000",
           label |-> "Package id 0", value |-> 72],
          [type |-> "fan", chip |-> "nct6775-isa-0290",
           label |-> "fan1", value |-> 1200]>>,
     hwmon |->
        <<[type |-> "temperature", chip |-> "coretemp",
           label |-> "Core 0", value |-> 70],
          [type |-> "temperature", chip |-> "coretemp",
           label |-> "Core 0", value |-> 64],
          [type |-> "voltage", chip |-> "nct6775",
           label |-> "in0", value |-> 1],
          [type |-> "power", chip |-> "coretemp",
           label |-> "package", value |-> 35]>>,
     thermal_zones |->
        <<[type |-> "temperature", chip |-> "thermal_zone",
           label |-> "x86_pkg_temp", value |-> 71]>>,
     acpi |->
        <<[type |-> "voltage", chip |-> "acpi",
           label |-> "BAT0 voltage", value |-> 12]>>]

\* What a machine shows to each backend.  "fails": the command or the sysfs
\* directory is not there, the command exits non-zero or times out, or
\* every file read under the directory raises (caught where it happens);
\* "raises": an error outside the backend's try blocks (hwmon: reading a
\* chip name file).  The machines here have at most one backend that is not
\* "ok", or none that is.
Machines ==
    LET all == [lm_sensors : {"ok", "fails"}, hwmon : {"ok", "fails", "raises"},
                thermal_zones : {"ok", "fails"}, acpi : {"ok", "fails"}]
    IN  {m \in all : \/ Cardinality({b \in DOMAIN m : m[b] # "ok"}) <= 1
                     \/ \A b \in DOMAIN m : m[b] = "fails"}

\* _deduplicate_sensors: the first sensor of each (chip, label, type) stays
RECURSIVE deduplicate_sensors(_)
deduplicate_sensors(s) ==
    IF s = <<>> THEN <<>>
    ELSE LET front == deduplicate_sensors(SubSeq(s, 1, Len(s) - 1))
             last == s[Len(s)]
         IN  IF \E j \in 1..Len(front) :
                    /\ front[j].chip = last.chip
                    /\ front[j].label = last.label
                    /\ front[j].type = last.type
             THEN front
             ELSE Append(front, last)

\* UniversalSensorDetector.__init__ / _detect_all_sensors on machine m: the
\* backends run in order and each appends to self.sensors; an error that
\* leaves a backend ends the constructor there.  ran: the backends entered;
\* raised: whether the constructor raised; list: self.sensors.
RECURSIVE detect_from(_, _, _)
detect_from(m, i, acc) ==
    IF i > Len(Backends)
    THEN [raised |-> FALSE, ran |-> acc.ran, list |-> deduplicate_sensors(acc.list)]
    ELSE LET b == Backends[i]
             ran == acc.ran \cup {b}
         IN  IF m[b] = "raises"
             THEN [raised |-> TRUE, ran |-> ran, list |-> acc.list]
             ELSE detect_from(m, i + 1,
                     [ran |-> ran,
                      list |-> IF m[b] = "ok" THEN acc.list \o Readings[b]
                               ELSE acc.list])
detect_all_sensors(m) == detect_from(m, 1, [ran |-> {}, list |-> <<>>])

(***************************************************************************)
(* UniversalFanController (src/sensors/fan_controller.py)                  *)
(***************************************************************************)
\* self.pwm_fans: a fan with a pwmN_enable file and one without
pwm_fans == <<[pwm_enable_path |-> TRUE], [pwm_enable_path |-> FALSE]>>

\* What the two sysfs writes of set_pwm_fan_speed meet: "ok", "denied"
\* (PermissionError) or, for the mode file, "error" (another OSError).
FanEnvs == [enable : {"ok", "denied", "error"}, pwm : {"ok", "denied"}]

\* set_pwm_fan_speed(fan_index, percent), fan_index counted from 1:
\* int((percent / 100) * 255) equals the integer quotient for 0..100.
\* manual: what the write of "1" to the mode file met ("skipped": the fan has
\* no mode file, or the index is out of range); pwm: the duty values written.
set_pwm_fan_speed(fan_index, percent, env) ==
    LET clamped == Max(0, Min(100, percent))
        pwm_value == (clamped * 255) \div 100
    IN  IF fan_index > Len(pwm_fans)
        THEN [fan |-> fan_index, percent |-> percent, manual |-> "skipped",
              pwm |-> {}, ok |-> FALSE]
        ELSE LET manual == IF pwm_fans[fan_index].pwm_enable_path
                           THEN env.enable ELSE "skipped"
                 reached == manual \in {"ok", "skipped"}
             IN  [fan |-> fan_index, percent |-> percent, manual |-> manual,
                  pwm |-> IF reached /\ env.pwm = "ok" THEN {pwm_value} ELSE {},
                  ok |-> reached /\ env.pwm = "ok"]

(***************************************************************************)
(* MonitoringService (src/services/monitoring_service.py)                  *)
(***************************************************************************)
\* self.max_snapshots
max_snapshots == 100
\* the cap save_snapshot_to_json puts on the JSON file
JsonTrailCap == 1000

\* self.cpu_temp_warning / _critical / _emergency: PowerConfig's thresholds
\* for the detected ceiling (here the ceiling of an unrecognised CPU)
MonitorThermal == set_thermal_config(get_thermal_max_safe(UNKNOWN, UNKNOWN))

\* get_all_metrics() of one tick: no GPU, or the primary GPU's metrics
GpuMetrics ==
    {<<>>,
     <<[temperature |-> <<80>>, power_usage |-> <<120>>, fan_rpm |-> <<>>]>>,
     <<[temperature |-> <<96>>, power_usage |-> <<>>, fan_rpm |-> <<1500>>]>>}

\* collect_snapshot at time ts over the detected sensors and the GPU metrics
collect_snapshot(ts, sens, gpus) ==
    LET IsTemp(s) == s.type = "temperature"
        IsPackage(s) == /\ s.chip \in {"coretemp-isa-0000", "coretemp"}
                        /\ s.label \in {"Package id 0"}
        IsFan(s) == s.type = "fan"
        IsCpuFan(s) == s.label \in {"fan1"}
        IsVoltage(s) == s.type = "voltage"
        IsCpuPower(s) == s.type = "power" /\ s.label \in {"package"}
        temps == SelectSeq(sens, IsTemp)
        package == SelectSeq(temps, IsPackage)
        cpu_temp == IF package # <<>> THEN <<package[1].value>>
                    ELSE IF temps # <<>> THEN <<temps[1].value>>
                    ELSE <<>>
        cpu_alerts ==
            IF ~Truthy(cpu_temp) THEN <<>>
            ELSE IF cpu_temp[1] >= MonitorThermal.emergency_temp THEN <<"CPU EMERGENCY">>
            ELSE IF cpu_temp[1] >= MonitorThermal.critical_temp THEN <<"CPU CRITICAL">>
            ELSE IF cpu_temp[1] >= MonitorThermal.warning_temp THEN <<"CPU WARNING">>
            ELSE <<>>
        gpu_temp == IF gpus # <<>> THEN gpus[1].temperature ELSE <<>>
        gpu_alerts ==
            IF ~Truthy(gpu_temp) THEN <<>>
            ELSE IF gpu_temp[1] >= 95 THEN <<"GPU EMERGENCY">>
            ELSE IF gpu_temp[1] >= 85 THEN <<"GPU CRITICAL">>
            ELSE IF gpu_temp[1] >= 75 THEN <<"GPU WARNING">>
            ELSE <<>>
        fans == SelectSeq(sens, IsFan)
        cpu_fans == SelectSeq(fans, IsCpuFan)
        Rpm(s) == IF s.value # 0 THEN <<s.value>> ELSE <<>>
        matched == IF cpu_fans # <<>> THEN Rpm(cpu_fans[1]) ELSE <<>>
        volts == SelectSeq(sens, IsVoltage)
        powers == SelectSeq(sens, IsCpuPower)
    IN  [timestamp |-> ts,
         cpu_temp |-> cpu_temp,
         gpu_temp |-> gpu_temp,
         cpu_fan_rpm |-> IF matched = <<>> /\ fans # <<>> THEN Rpm(fans[1])
                         ELSE matched,
         gpu_fan_rpm |-> IF gpus # <<>> THEN gpus[1].fan_rpm ELSE <<>>,
         gpu_power |-> IF gpus # <<>> THEN gpus[1].power_usage ELSE <<>>,
         cpu_power |-> IF powers # <<>> THEN <<powers[1].value>> ELSE <<>>,
         voltages |-> {<<volts[i].label, volts[i].value>> :
                          i \in 1..Min(5, Len(volts))},
         alerts |-> cpu_alerts \o gpu_alerts]

\* fan_target without the return on max_temp == 0
fan_target_without_data_check(auto, snap) ==
    LET cpu == IF Truthy(snap.cpu_temp) THEN snap.cpu_temp[1] ELSE 0
        max_temp == IF Truthy(snap.gpu_temp) THEN Max(cpu, snap.gpu_temp[1]) ELSE cpu
        gpu_at(limit) == Truthy(snap.gpu_temp) /\ snap.gpu_temp[1] >= limit
    IN  IF ~auto THEN <<>>
        ELSE IF max_temp >= MonitorThermal.emergency_temp \/ gpu_at(95) THEN <<100>>
        ELSE IF max_temp >= MonitorThermal.critical_temp \/ gpu_at(85) THEN <<75>>
        ELSE IF max_temp >= MonitorThermal.warning_temp \/ gpu_at(75) THEN <<50>>
        ELSE <<30>>

\* adjust_fans_based_on_temp up to the loop over the fans: <<>> when it
\* returns before the loop, else the target speed of the tier
fan_target(auto, snap) ==
    LET cpu == IF Truthy(snap.cpu_temp) THEN snap.cpu_temp[1] ELSE 0
        max_temp == IF Truthy(snap.gpu_temp) THEN Max(cpu, snap.gpu_temp[1]) ELSE cpu
        gpu_at(limit) == Truthy(snap.gpu_temp) /\ snap.gpu_temp[1] >= limit
    IN  IF ~auto \/ max_temp = 0 THEN <<>>
        ELSE IF max_temp >= MonitorThermal.emergency_temp \/ gpu_at(95) THEN <<100>>
        ELSE IF max_temp >= MonitorThermal.critical_temp \/ gpu_at(85) THEN <<75>>
        ELSE IF max_temp >= MonitorThermal.warning_temp \/ gpu_at(75) THEN <<50>>
        ELSE <<30>>

\* save_snapshot_to_json: the file is read, the snapshot appended, the list
\* cut to its last JsonTrailCap entries and the file rewritten; any error is
\* logged.  env "denied": the file cannot be opened for writing; "truncated":
\* it is opened (and so emptied) and the dump fails.  A file that is not
\* valid JSON makes the read raise, so nothing is written.
save_snapshot_to_json(log, ts, env) ==
    LET data == Append(log.data, ts)
        kept == IF Len(data) > JsonTrailCap
                THEN SubSeq(data, Len(data) - JsonTrailCap + 1, Len(data))
                ELSE data
    IN  IF ~log.valid \/ env = "denied" THEN log
        ELSE IF env = "truncated" THEN [valid |-> FALSE, data |-> <<>>]
        ELSE [valid |-> TRUE, data |-> kept]

\* MonitoringService() on machine m, the JSON file holding prior: the
\* detectors have run, no snapshot is held, the loop is not started.
\* Older entries of the file carry timestamps below 1.
ServiceConstructed(m, prior) ==
    /\ sensors = detect_all_sensors(m)
    /\ snapshots = <<>>
    /\ json_log = [valid |-> TRUE, data |-> [i \in 1..prior |-> i - prior]]
    /\ snapshot = collect_snapshot(0, <<>>, <<>>)
    /\ arrived = 0
    /\ monitorPc = "stopped"
    /\ running = FALSE
    /\ stop_event = FALSE
    /\ fanCalls = <<>>
    /\ thermalPc = "stopped"
    /\ monitoring = FALSE
    /\ status = -1

ServiceIdle ==
    ServiceConstructed([b \in {"lm_sensors", "hwmon", "thermal_zones", "acpi"} |-> "fails"], 0)

\* start(): the thread enters monitoring_loop with the event just cleared.
\* A start while the thread of an earlier run is still inside a tick is left
\* out.
StartService ==
    /\ ~running /\ monitorPc = "stopped" /\ ~sensors.raised
    /\ running' = TRUE
    /\ stop_event' = FALSE
    /\ monitorPc' = "collect"
    /\ fanCalls' = <<>>
    /\ UNCHANGED <<sensors, snapshots, json_log, snapshot, arrived,
                   thermalLoopVars>>

\* stop()
StopService ==
    /\ running
    /\ stop_event' = TRUE
    /\ running' = FALSE
    /\ fanCalls' = <<>>
    /\ UNCHANGED <<sensors, snapshots, json_log, snapshot, arrived,
                   monitorPc, thermalLoopVars>>

\* monitoring_loop, from collect_snapshot to save_snapshot_to_json.  The
\* list holds each snapshot by its timestamp, the count of snapshots taken so
\* far.  raises: collect_snapshot raised, which the loop's handler logs.
MonitorCollect(gpus, env, raises) ==
    /\ monitorPc = "collect"
    /\ arrived < MaxMonitorTicks
    /\ IF raises
       THEN /\ monitorPc' = "backoff"
            /\ fanCalls' = <<>>
            /\ UNCHANGED <<snapshots, json_log, snapshot, arrived>>
       ELSE LET ts == arrived + 1
                appended == Append(snapshots, ts)
            IN  /\ arrived' = ts
                /\ snapshot' = collect_snapshot(ts, sensors.list, gpus)
                /\ snapshots' = IF Len(appended) > max_snapshots
                                THEN Tail(appended) ELSE appended
                /\ json_log' = save_snapshot_to_json(json_log, ts, env)
                /\ monitorPc' = "adjust_fans"
                /\ fanCalls' = <<>>
    /\ UNCHANGED <<sensors, running, stop_event, thermalLoopVars>>

\* monitoring_loop: adjust_fans_based_on_temp(snapshot) with auto_fan_control
\* as constructed; each set_pwm_fan_speed call meets env.  raises: an error
\* left the call, which the loop's handler logs.
MonitorAdjustFans(env, raises) ==
    /\ monitorPc = "adjust_fans"
    /\ LET target == fan_target(TRUE, snapshot)
       IN  fanCalls' = IF raises \/ target = <<>> THEN <<>>
                       ELSE [i \in 1..Len(pwm_fans) |->
                               set_pwm_fan_speed(i, target[1], env)]
    /\ monitorPc' = IF raises THEN "backoff" ELSE "wait"
    /\ UNCHANGED <<sensors, snapshots, json_log, snapshot, arrived, running,
                   stop_event, thermalLoopVars>>

\* monitoring_loop: stop_event.wait(interval), after a tick or in the handler
\* of a failed one, then the test of the while
MonitorWait ==
    /\ monitorPc \in {"wait", "backoff"}
    /\ monitorPc' = IF stop_event THEN "stopped" ELSE "collect"
    /\ fanCalls' = <<>>
    /\ UNCHANGED <<sensors, snapshots, json_log, snapshot, arrived, running,
                   stop_event, thermalLoopVars>>

\* fan_controller.py set <fan> <pct>, used while the service's loop is not
\* running
SetFanSpeed(fan_index, percent, env) ==
    /\ monitorPc = "stopped"
    /\ fanCalls' = <<set_pwm_fan_speed(fan_index, percent, env)>>
    /\ UNCHANGED <<sensors, snapshots, json_log, snapshot, arrived, monitorPc,
                   running, stop_event, thermalLoopVars>>

(***************************************************************************)
(* thermal_monitoring_loop (scripts/smart_thermal_manager.py), step by step *)
(***************************************************************************)
\* start_monitoring: the thread enters the loop, which sets self.monitoring
StartMonitoring ==
    /\ ~monitoring /\ thermalPc = "stopped"
    /\ monitoring' = TRUE
    /\ thermalPc' = "sample"
    /\ UNCHANGED <<thermalVars, monitorVars, status>>

\* stop_monitoring
StopMonitoring ==
    /\ monitoring
    /\ monitoring' = FALSE
    /\ UNCHANGED <<thermalVars, monitorVars, thermalPc, status>>

\* ThermalSample with a failure that leaves the loop
ThermalSampleUncaught(temp, raises) ==
    /\ thermalPc = "sample"
    /\ thermalPc' = IF raises THEN "stopped" ELSE "respond"
    /\ status' = IF raises THEN status ELSE temp
    /\ UNCHANGED <<thermalVars, monitorVars, monitoring>>

\* the loop's get_system_status(), which reads temp; raises: it raised
ThermalSample(temp, raises) ==
    /\ thermalPc = "sample"
    /\ thermalPc' = IF raises THEN "backoff" ELSE "respond"
    /\ status' = IF raises THEN status ELSE temp
    /\ UNCHANGED <<thermalVars, monitorVars, monitoring>>

\* the loop's adaptive_thermal_response(status.cpu_temp, _), ok being the
\* exit of the powerprofilesctl command it may run.  call "raises": an error
\* left the call.  call "hangs": the pgrep of find_ai_processes, which the
\* response runs when it throttles, does not return; it is run without a
\* timeout, so the tick stays inside the call ("hung").
ThermalRespond(ok, call) ==
    /\ thermalPc = "respond"
    /\ IF call = "raises"
       THEN thermalPc' = "backoff" /\ UNCHANGED thermalVars
       ELSE IF call = "hangs" /\ Response(status, ok).nice >= 0
       THEN thermalPc' = "hung" /\ UNCHANGED thermalVars
       ELSE thermalPc' = "sleep" /\ adaptive_thermal_response(status, ok)
    /\ UNCHANGED <<monitorVars, monitoring, status>>

\* the loop's sleep (2 s after a tick, 5 s in the handler of a failed one),
\* then the test of the while
ThermalSleep ==
    /\ thermalPc \in {"sleep", "backoff"}
    /\ thermalPc' = IF monitoring THEN "sample" ELSE "stopped"
    /\ UNCHANGED <<thermalVars, monitorVars, monitoring, status>>

(***************************************************************************)
(* examples/ai_workloads: UltraSafeMyCoder and ThermalMyCoder              *)
(***************************************************************************)
ULTRA == "UltraSafeMyCoder"
REAL == "ThermalMyCoder"

\* nested thermal_safety_check frames the interpreter allows before it raises
\* RecursionError (CPython's default limit is 1000 frames; a smaller limit
\* only shortens the run)
RecursionLimit == 30

\* __init__: <<temp_threshold, critical_temp>> of each class
check_thresholds(ex) == IF ex = ULTRA THEN <<70, 75>> ELSE <<65, 70>>

\* get_cpu_temperature: <<>> is None (no "Core 0:" line, or sensors failed)
CoreReadings == {<<>>, <<60>>, <<68>>, <<72>>, <<80>>}

\* One frame of thermal_safety_check up to its return or its sleep:
\* "safe" is return True, "unsafe" is return False, "recheck" is the sleep
\* followed by `return self.thermal_safety_check()`.
safety_check(ex, r) ==
    LET temp == IF Truthy(r) THEN r[1] ELSE 0
        th == check_thresholds(ex)
    IN  IF ex = REAL /\ ~Truthy(r) THEN "unsafe"
        ELSE IF temp >= th[2] THEN "unsafe"
        ELSE IF temp >= th[1] THEN "recheck"
        ELSE "safe"

\* a caller invokes thermal_safety_check()
ThermalSafetyCheck ==
    /\ checkPc \in {"idle", "returned", "RecursionError"}
    /\ checkPc' = "reading"
    /\ depth' = 1
    /\ reading' = <<>>
    /\ verdict' = <<>>
    /\ UNCHANGED example

\* the innermost frame reads the temperature and returns or goes to sleep
CheckReading(r) ==
    /\ checkPc = "reading"
    /\ reading' = r
    /\ LET o == safety_check(example, r)
       IN  IF o = "recheck"
           THEN /\ checkPc' = "cooling"
                /\ UNCHANGED <<depth, verdict>>
           ELSE /\ checkPc' = "returned"
                /\ depth' = 0
                /\ verdict' = <<o = "safe">>
    /\ UNCHANGED example

\* The sleep is over: `return self.thermal_safety_check()`.  At the limit
\* the interpreter raises RecursionError in whichever call first needs one
\* frame too many: in the calls under get_cpu_temperature's try, whose
\* `except Exception` turns it into the reading None (swallowed), or outside
\* it, and then the error leaves every frame of the check.
CheckRecurse(swallowed) ==
    /\ checkPc = "cooling"
    /\ IF depth < RecursionLimit
       THEN /\ checkPc' = "reading"
            /\ depth' = depth + 1
            /\ UNCHANGED <<reading, verdict>>
       ELSE IF swallowed
       THEN /\ checkPc' = "returned"
            /\ depth' = 0
            /\ reading' = <<>>
            /\ verdict' = <<safety_check(example, <<>>) = "safe">>
       ELSE /\ checkPc' = "RecursionError"
            /\ depth' = 0
            /\ UNCHANGED <<reading, verdict>>
    /\ UNCHANGED example

ExampleConstructed(ex) ==
    /\ example = ex
    /\ checkPc = "idle"
    /\ depth = 0
    /\ reading = <<>>
    /\ verdict = <<>>

(***************************************************************************)
(* SmartThermalManager: start_monitoring, stop_monitoring and the threads  *)
(* they start, each thread running thermal_monitoring_loop                 *)
(***************************************************************************)
\* threads one run creates
MaxThreads == 2

\* the threads that are inside thermal_monitoring_loop
LiveLoops == {t \in 1..Len(loopPc) : loopPc[t] # "ended"}

\* start_monitoring: returns at once when self.monitoring is set, otherwise
\* creates and starts a thread (the flag itself is set by the thread)
start_monitoring ==
    /\ ~monitoring
    /\ Len(loopPc) < MaxThreads
    /\ loopPc' = Append(loopPc, "started")
    /\ UNCHANGED <<thermalVars, monitoring>>

\* stop_monitoring
stop_monitoring ==
    /\ monitoring' = FALSE
    /\ UNCHANGED <<thermalVars, loopPc>>

\* line 222 in thread t: self.monitoring = True
LoopEntry(t) ==
    /\ loopPc[t] = "started"
    /\ monitoring' = TRUE
    /\ loopPc' = [loopPc EXCEPT ![t] = "test"]
    /\ UNCHANGED thermalVars

\* line 224 in thread t: while self.monitoring; line 245 after the loop
LoopTest(t) ==
    /\ loopPc[t] = "test"
    /\ loopPc' = [loopPc EXCEPT ![t] = IF monitoring THEN "tick" ELSE "ended"]
    /\ monitoring' = monitoring
    /\ UNCHANGED thermalVars

\* lines 226-233 in thread t: the tick
LoopTick(t, temp, ok) ==
    /\ loopPc[t] = "tick"
    /\ adaptive_thermal_response(temp, ok)
    /\ loopPc' = [loopPc EXCEPT ![t] = "sleep"]
    /\ UNCHANGED monitoring

\* line 236 in thread t: time.sleep(2) returns
LoopSleep(t) ==
    /\ loopPc[t] = "sleep"
    /\ loopPc' = [loopPc EXCEPT ![t] = "test"]
    /\ UNCHANGED <<thermalVars, monitoring>>

(***************************************************************************)
(* CustomPowerProfilesDaemon (src/daemons/custom-power-profiles-daemon.py) *)
(***************************************************************************)
\* HoldProfile calls one run makes
MaxHoldCalls == 4

\* HoldProfile calls made so far
HoldCalls == IF hold_op = <<>> THEN 0 ELSE hold_op[1].calls

\* HoldProfile(profile, reason, application_id): appends the hold and returns
\* the length the list had before.  An entry of self.holds carries, besides
\* the three fields the code stores, the call that made it and the id that
\* call returned.
HoldProfile(profile, reason, application_id) ==
    /\ HoldCalls < MaxHoldCalls
    /\ LET hold_id == Len(holds)
       IN  /\ holds' = Append(holds, [Profile |-> profile, Reason |-> reason,
                                      ApplicationId |-> application_id,
                                      call |-> HoldCalls + 1, returned |-> hold_id])
           /\ hold_op' = <<[op |-> "HoldProfile", hold_id |-> hold_id,
                            calls |-> HoldCalls + 1]>>

\* ReleaseProfile(hold_id): `del self.holds[hold_id]` when hold_id is an index
\* of the list (hold_id is a D-Bus uint32; Python indices count from 0)
ReleaseProfile(hold_id) ==
    /\ holds' = IF hold_id < Len(holds)
                THEN [i \in 1..(Len(holds) - 1) |->
                         IF i <= hold_id THEN holds[i] ELSE holds[i + 1]]
                ELSE holds
    /\ hold_op' = <<[op |-> "ReleaseProfile", hold_id |-> hold_id,
                     calls |-> HoldCalls]>>

OtherIdle ==
    /\ ExampleConstructed(ULTRA)
    /\ loopPc = <<>>
    /\ holds = <<>>
    /\ hold_op = <<>>

(***************************************************************************)
(* Specifications                                                          *)
(***************************************************************************)
InitThermal ==
    /\ \E th \in ThresholdSets : Thresholds(th)
    /\ ThermalConstructed
    /\ FreqIdle
    /\ ConfigIdle
    /\ ServiceIdle
    /\ OtherIdle

NextThermal ==
    \/ \E temp \in Temps, ok \in BOOLEAN :
          adaptive_thermal_response(temp, ok) /\ UNCHANGED <<freqVars, configVars, serviceVars, otherVars>>
    \/ \E mode \in PowerMode, ok \in BOOLEAN :
          RequestMode(mode, ok) /\ UNCHANGED <<freqVars, configVars, serviceVars, otherVars>>

SpecThermal == InitThermal /\ [][NextThermal]_vars

InitFreq ==
    /\ \E id \in Identities, cpufreq \in BOOLEAN, modprobe \in {"ok", "fails", "missing"},
          msrDev \in BOOLEAN, cpupower \in BOOLEAN, ci \in BOOLEAN,
          src \in {"cpufreq", "cpuinfo", "default"}, r \in CpufreqRanges,
          cur \in CurrentFreqs :
          /\ (src = "cpufreq") = cpufreq
          /\ FreqConstructed(id, cpufreq, modprobe, msrDev, cpupower, ci, src, r, cur)
    /\ ThermalIdle
    /\ ConfigIdle
    /\ ServiceIdle
    /\ OtherIdle

NextFreq ==
    \/ \E target \in Targets, env \in Envs :
          UniversalSetFrequency(target, env) /\ UNCHANGED <<thermalVars, configVars, serviceVars, otherVars>>
    \/ \E target \in Targets, env \in Envs :
          LegacySetFrequency(target, env) /\ UNCHANGED <<thermalVars, configVars, serviceVars, otherVars>>

SpecFreq == InitFreq /\ [][NextFreq]_vars

InitConfig ==
    /\ ConfigConstructed
    /\ ThermalIdle
    /\ FreqIdle
    /\ ServiceIdle
    /\ OtherIdle

NextConfig ==
    \/ \E t \in DetectedThermalMax :
          SetThermalConfig(t) /\ UNCHANGED <<thermalVars, freqVars, serviceVars, otherVars>>
    \/ \E file \in ConfigFiles :
          Load(file) /\ UNCHANGED <<thermalVars, freqVars, serviceVars, otherVars>>
    \/ \E range \in DetectedRanges :
          SetFrequencyConfig(range[1], range[2]) /\ UNCHANGED <<thermalVars, freqVars, serviceVars, otherVars>>

SpecConfig == InitConfig /\ [][NextConfig]_vars

InitMonitor ==
    /\ \E m \in Machines, prior \in {0, 1000} : ServiceConstructed(m, prior)
    /\ Thresholds(DefaultThresholds)
    /\ ThermalConstructed
    /\ FreqIdle
    /\ ConfigIdle
    /\ OtherIdle

NextMonitor ==
    \/ StartService /\ UNCHANGED <<thermalVars, freqVars, configVars, otherVars>>
    \/ StopService /\ UNCHANGED <<thermalVars, freqVars, configVars, otherVars>>
    \/ \E gpus \in GpuMetrics, env \in {"ok", "denied", "truncated"}, raises \in BOOLEAN :
          MonitorCollect(gpus, env, raises) /\ UNCHANGED <<thermalVars, freqVars, configVars, otherVars>>
    \/ \E env \in FanEnvs, raises \in BOOLEAN :
          MonitorAdjustFans(env, raises) /\ UNCHANGED <<thermalVars, freqVars, configVars, otherVars>>
    \/ MonitorWait /\ UNCHANGED <<thermalVars, freqVars, configVars, otherVars>>
    \/ \E fan_index \in 1..3, percent \in {-10, 30, 150}, env \in FanEnvs :
          SetFanSpeed(fan_index, percent, env) /\ UNCHANGED <<thermalVars, freqVars, configVars, otherVars>>

SpecMonitor == InitMonitor /\ [][NextMonitor]_vars

\* The two loops side by side on a machine where every backend answers
InitLoops ==
    /\ ServiceConstructed([b \in {"lm_sensors", "hwmon", "thermal_zones", "acpi"} |-> "ok"], 0)
    /\ ThermalIdle
    /\ FreqIdle
    /\ ConfigIdle
    /\ OtherIdle

NextLoops ==
    \/ StartMonitoring /\ UNCHANGED <<freqVars, configVars, otherVars>>
    \/ StopMonitoring /\ UNCHANGED <<freqVars, configVars, otherVars>>
    \/ \E temp \in {50, 81}, raises \in BOOLEAN :
          ThermalSample(temp, raises) /\ UNCHANGED <<freqVars, configVars, otherVars>>
    \/ \E ok \in BOOLEAN, call \in {"ok", "hangs", "raises"} :
          ThermalRespond(ok, call) /\ UNCHANGED <<freqVars, configVars, otherVars>>
    \/ ThermalSleep /\ UNCHANGED <<freqVars, configVars, otherVars>>
    \/ StartService /\ UNCHANGED <<thermalVars, freqVars, configVars, otherVars>>
    \/ StopService /\ UNCHANGED <<thermalVars, freqVars, configVars, otherVars>>
    \/ \E raises \in BOOLEAN :
          MonitorCollect(<<>>, "ok", raises) /\ UNCHANGED <<thermalVars, freqVars, configVars, otherVars>>
    \/ \E raises \in BOOLEAN :
          MonitorAdjustFans([enable |-> "ok", pwm |-> "ok"], raises)
              /\ UNCHANGED <<thermalVars, freqVars, configVars, otherVars>>
    \/ MonitorWait /\ UNCHANGED <<thermalVars, freqVars, configVars, otherVars>>

SpecLoops == InitLoops /\ [][NextLoops]_vars

InitChecks ==
    /\ \E ex \in {ULTRA, REAL} : ExampleConstructed(ex)
    /\ loopPc = <<>>
    /\ holds = <<>>
    /\ hold_op = <<>>
    /\ ThermalIdle
    /\ FreqIdle
    /\ ConfigIdle
    /\ ServiceIdle

NextChecks ==
    \/ ThermalSafetyCheck
          /\ UNCHANGED <<thermalVars, freqVars, configVars, serviceVars, loopPc, daemonVars>>
    \/ \E r \in CoreReadings :
          CheckReading(r)
              /\ UNCHANGED <<thermalVars, freqVars, configVars, serviceVars, loopPc, daemonVars>>
    \/ \E swallowed \in BOOLEAN :
          CheckRecurse(swallowed)
              /\ UNCHANGED <<thermalVars, freqVars, configVars, serviceVars, loopPc, daemonVars>>

SpecChecks == InitChecks /\ [][NextChecks]_vars

InitThreads ==
    /\ ThermalIdle
    /\ FreqIdle
    /\ ConfigIdle
    /\ ServiceIdle
    /\ OtherIdle

NextThreads ==
    \/ start_monitoring
          /\ UNCHANGED <<freqVars, configVars, monitorVars, thermalPc, status, exampleVars, daemonVars>>
    \/ stop_monitoring
          /\ UNCHANGED <<freqVars, configVars, monitorVars, thermalPc, status, exampleVars, daemonVars>>
    \/ \E t \in 1..Len(loopPc) :
          LoopEntry(t)
              /\ UNCHANGED <<freqVars, configVars, monitorVars, thermalPc, status, exampleVars, daemonVars>>
    \/ \E t \in 1..Len(loopPc) :
          LoopTest(t)
              /\ UNCHANGED <<freqVars, configVars, monitorVars, thermalPc, status, exampleVars, daemonVars>>
    \/ \E t \in 1..Len(loopPc), temp \in {50, 72}, ok \in BOOLEAN :
          LoopTick(t, temp, ok)
              /\ UNCHANGED <<freqVars, configVars, monitorVars, thermalPc, status, exampleVars, daemonVars>>
    \/ \E t \in 1..Len(loopPc) :
          LoopSleep(t)
              /\ UNCHANGED <<freqVars, configVars, monitorVars, thermalPc, status, exampleVars, daemonVars>>

SpecThreads == InitThreads /\ [][NextThreads]_vars

InitDaemon ==
    /\ holds = <<>>
    /\ hold_op = <<>>
    /\ ExampleConstructed(ULTRA)
    /\ loopPc = <<>>
    /\ ThermalIdle
    /\ FreqIdle
    /\ ConfigIdle
    /\ ServiceIdle

NextDaemon ==
    \/ \E profile \in {PERFORMANCE, POWER_SAVE}, application_id \in {"app1", "app2"} :
          HoldProfile(profile, "benchmark", application_id)
              /\ UNCHANGED <<thermalVars, freqVars, configVars, serviceVars, exampleVars, loopPc>>
    \/ \E hold_id \in 0..MaxHoldCalls :
          ReleaseProfile(hold_id)
              /\ UNCHANGED <<thermalVars, freqVars, configVars, serviceVars, exampleVars, loopPc>>

SpecDaemon == InitDaemon /\ [][NextDaemon]_vars

(***************************************************************************)
(* Claims about SmartThermalManager (checked under SpecThermal)            *)
(***************************************************************************)
IsTick == lastOp = "tick"
\* the latest tick ran no profile command, or the command it ran exited 0
CommandSucceeded == requested # None => applied
ExampleRun == /\ steady
              /\ lastTemp = 80
              /\ <<comfort_temp, warning_temp, critical_temp, emergency_temp>>
                     = ExampleThresholds

C2_CounterResetByComfortTick ==
    (IsTick /\ lastTemp < comfort_temp) => escalation_count = 0

\* C3 (as stated): three consecutive ticks at 80 from the initial state, with
\* thresholds 60/75/85/95, leave the mode EMERGENCY after the third tick.
C3_EmergencyOnThirdTick ==
    (ExampleRun /\ ticks = 3) => current_mode = EMERGENCY

\* C3 (amended): with thresholds 60/75/85/95 and from the initial state, each
\* of the first three consecutive ticks at 80 requests power-saver and leaves
\* the counter at the number of ticks and the mode not EMERGENCY; the fourth
\* tick raises the counter to 4, requests EMERGENCY with nice 19, and the
\* mode is EMERGENCY when that command exits with status 0.
C3_EmergencyOnFourthTick ==
    /\ (ExampleRun /\ ticks \in 1..3) =>
            /\ escalation_count = ticks
            /\ requested = POWER_SAVE
            /\ current_mode \in {BALANCED, POWER_SAVE}
    /\ (ExampleRun /\ ticks = 4) =>
            /\ escalation_count = 4
            /\ requested = EMERGENCY
            /\ niceLevel = 19
            /\ (applied => current_mode = EMERGENCY)

\* the fourth tick of the run has forced EMERGENCY
C3_Witness ==
    /\ ExampleRun
    /\ ticks = 4
    /\ applied
    /\ current_mode = EMERGENCY

\* C4: a tick whose temperature is at or above the emergency threshold leaves
\* the mode EMERGENCY and has run the kill path.
C4_EmergencyTickSetsEmergencyAndKills ==
    (IsTick /\ lastTemp >= emergency_temp) => (current_mode = EMERGENCY /\ killed)

\* C5: a tick that finds the mode EMERGENCY and whose temperature is not
\* below the comfort threshold leaves the mode EMERGENCY.
C5_EmergencyLeftOnlyBelowComfort ==
    [][(current_mode = EMERGENCY /\ lastOp' = "tick" /\ lastTemp' >= comfort_temp)
          => current_mode' = EMERGENCY]_vars

\* C6: from one tick in the warning band (warning <= temp < critical) to the
\* next tick in that band the escalation counter does not decrease.
C6_CounterMonotoneInWarningBand ==
    [][(/\ IsTick
        /\ Band(lastTemp) = "warning"
        /\ lastOp' = "tick"
        /\ Band(lastTemp') = "warning")
          => escalation_count' >= escalation_count]_vars

\* two consecutive ticks in the warning band have happened
C6_Witness ==
    /\ IsTick
    /\ steady
    /\ ticks = 2
    /\ Band(lastTemp) = "warning"
    /\ escalation_count = 2

(***************************************************************************)
(* Claims about the frequency managers (checked under SpecFreq)            *)
(***************************************************************************)
\* C7: every frequency a UniversalCPUManager.set_frequency call writes lies
\* within [min_freq_mhz, max_freq_mhz] of the detected profile.
C7_WrittenFrequencyWithinRange ==
    freqCall.manager = "universal" =>
        \A f \in freqCall.written :
            cpu_info.min_freq_mhz <= f /\ f <= cpu_info.max_freq_mhz

\* C8: for a profile whose generation is UNKNOWN the selected control method
\* is never the MSR method.
C8_MsrNeverSelectedForUnknown ==
    cpu_info.generation = UNKNOWN => control_method # "msr"

\* The methods a machine offers to UniversalCPUManager, and whether one of
\* them would carry out the call freqCall records.
UniversalAvailable ==
    {m \in {"cpufreq", "msr", "cpupower"} :
        \/ m = "cpufreq" /\ cpu_info.supports_cpufreq
        \/ m = "msr" /\ cpu_info.supports_msr
        \/ m = "cpupower" /\ has_cpupower}
UniversalWouldSucceed(m) ==
    LET t == Clamp(freqCall.target, cpu_info)
    IN  CASE m = "cpufreq" -> set_frequency_cpufreq(t, freqCall.env).result
          [] m = "msr" -> set_frequency_msr(t, cpu_info, freqCall.env).result
          [] OTHER -> set_frequency_cpupower(t, freqCall.env).result
LegacyWouldSucceed(m) == legacy_method(m, freqCall.target, freqCall.env).result

\* C9: set_frequency succeeds exactly when some available method succeeds
\* for the call: a failing earlier method is followed by the later ones, and
\* failure is reported only when every available method has failed.
C9_SucceedsThroughLaterMethod ==
    /\ (freqCall.manager = "universal" /\ ~is_ci) =>
          (freqCall.result <=> \E m \in UniversalAvailable : UniversalWouldSucceed(m))
    /\ freqCall.manager = "legacy" =>
          (freqCall.result <=>
              \E i \in 1..Len(available_methods) : LegacyWouldSucceed(available_methods[i]))

(***************************************************************************)
(* Claims about PowerConfig (checked under SpecConfig)                     *)
(***************************************************************************)
\* C10: in every configuration state the thresholds satisfy
\* comfort < warning < critical < emergency.
C10_ThresholdsStrictlyIncreasing ==
    /\ thermal.comfort_temp < thermal.warning_temp
    /\ thermal.warning_temp < thermal.critical_temp
    /\ thermal.critical_temp < thermal.emergency_temp

(***************************************************************************)
(* Claims about the frequency profile (checked under SpecConfig)           *)
(***************************************************************************)
\* C11: the FrequencyProfile that set_frequency_config computes from a
\* detected range [min, max] has performance >= balanced >= powersave >=
\* emergency >= min, and performance = max exactly.
C11_ProfileOrdered ==
    cfgOp = "set_frequency_config" =>
        /\ frequency.performance_freq >= frequency.balanced_freq
        /\ frequency.balanced_freq >= frequency.powersave_freq
        /\ frequency.powersave_freq >= frequency.emergency_freq
        /\ frequency.emergency_freq >= frequency.min_freq_mhz
        /\ frequency.performance_freq = frequency.max_freq_mhz
\* a profile computed from a range whose 70% point int() truncates short of
\* 7r/10, with every inequality strict
C11_Witness ==
    /\ cfgOp = "set_frequency_config"
    /\ (frequency.max_freq_mhz - frequency.min_freq_mhz) \in FloatShortOfSeventy
    /\ frequency.performance_freq > frequency.balanced_freq
    /\ frequency.balanced_freq > frequency.powersave_freq
    /\ frequency.powersave_freq > frequency.emergency_freq

(***************************************************************************)
(* Claims about the two loops (checked under SpecLoops)                    *)
(***************************************************************************)
\* thermal_monitoring_loop is inside adaptive_thermal_response and the
\* response runs a profile command, a throttle or a kill
ThermalActuating ==
    /\ thermalPc = "respond"
    /\ LET r == Response(status, TRUE)
       IN  r.req # None \/ r.nice >= 0 \/ r.kill
\* monitoring_loop is inside adjust_fans_based_on_temp and the call writes
\* the fans
MonitorActuating ==
    /\ monitorPc = "adjust_fans"
    /\ fan_target(TRUE, snapshot) # <<>>

\* C12: with the thermal tick and the monitoring/fan tick running side by
\* side, in no reachable state are both inside an actuation (fan write,
\* profile or frequency write, process throttle or kill) at the same instant.
C12_ActuationMutuallyExclusive == ~(ThermalActuating /\ MonitorActuating)

\* C13: a failure raised inside a tick never ends thermal_monitoring_loop or
\* monitoring_loop; the loop waits its backoff and goes on to the next tick.
\* The thermal loop ends only with self.monitoring false, the monitoring
\* loop only with stop_event set, and the wait after a failed tick leads to
\* the next tick unless that stop signal is there.
C13_LoopsEndOnlyOnStop ==
    [][/\ (thermalPc # "stopped" /\ thermalPc' = "stopped") => ~monitoring
       /\ (monitorPc # "stopped" /\ monitorPc' = "stopped") => stop_event
       /\ (thermalPc = "backoff" /\ thermalPc' # "backoff" /\ monitoring)
             => thermalPc' = "sample"
       /\ (monitorPc = "backoff" /\ monitorPc' # "backoff" /\ ~stop_event)
             => monitorPc' = "collect"]_vars
\* both loops are in the wait that follows a failed tick, neither is asked
\* to stop, and the monitoring loop has completed a tick before
C13_Witness ==
    /\ thermalPc = "backoff" /\ monitoring
    /\ monitorPc = "backoff" /\ ~stop_event
    /\ arrived >= 1 /\ ticks >= 1

\* C14: every tick terminates: each external call of the thermal tick
\* (process search, renice/taskset, pkill, powerprofilesctl) is bounded by a
\* timeout, so no tick stays inside a call that does not return.
C14_NoTickHangs == thermalPc # "hung"

(***************************************************************************)
(* Claims about a tick without a reading (checked under SpecThermal)       *)
(***************************************************************************)
\* C15: a thermal tick for which no temperature reading is available
\* (get_cpu_temperature returns 0 when every source failed) changes neither
\* the power mode nor the escalation counter and triggers no actuation; in
\* particular it never relaxes the mode out of Emergency.
C15_NoReadingChangesNothing ==
    [][(lastOp' = "tick" /\ lastTemp' = 0) =>
          /\ current_mode' = current_mode
          /\ escalation_count' = escalation_count
          /\ requested' = None
          /\ niceLevel' = -1
          /\ ~killed']_vars

(***************************************************************************)
(* Claims about MonitoringService (checked under SpecMonitor)              *)
(***************************************************************************)
\* the loop's current snapshot was collected with no sensor detected and no
\* GPU metrics
EmptySample ==
    /\ arrived >= 1
    /\ sensors.list = <<>>
    /\ snapshot = collect_snapshot(arrived, sensors.list, <<>>)

\* C16: collect_snapshot with zero available sensor backends and no GPU
\* metrics returns a snapshot with every optional field absent and an empty
\* alert list, and adjust_fans_based_on_temp then performs no fan write.
C16_EmptySnapshotNoFanWrite ==
    EmptySample =>
        /\ snapshot.cpu_temp = <<>> /\ snapshot.gpu_temp = <<>>
        /\ snapshot.cpu_fan_rpm = <<>> /\ snapshot.gpu_fan_rpm = <<>>
        /\ snapshot.gpu_power = <<>> /\ snapshot.cpu_power = <<>>
        /\ snapshot.voltages = {}
        /\ snapshot.alerts = <<>>
        /\ fan_target(TRUE, snapshot) = <<>>
        /\ monitorPc = "wait" => fanCalls = <<>>
\* adjust_fans_based_on_temp has returned for such a snapshot
C16_Witness == EmptySample /\ monitorPc = "wait"

(***************************************************************************)
(* Claims about HardwareDetector (checked under SpecFreq)                  *)
(***************************************************************************)
\* C17: when the CPU identification is unreadable or unrecognised, detection
\* yields vendor Unknown and generation Unknown with the lowest thermal
\* ceiling of any profile in the ceiling table and the narrowest frequency
\* range of those detection can return.
C17_UnknownGetsSafestProfile ==
    LET table == ({INTEL} \X {CORE2, NEHALEM, SANDY_BRIDGE, SKYLAKE_PLUS, UNKNOWN})
                 \cup ({AMD} \X {K8, K10, BULLDOZER, ZEN, UNKNOWN})
                 \cup {<<UNKNOWN, UNKNOWN>>}
        ranges == {detect_frequency_range(src, r, cur) :
                      src \in {"cpufreq", "cpuinfo", "default"},
                      r \in CpufreqRanges, cur \in CurrentFreqs}
    IN  cpu_info.vendor = UNKNOWN =>
            /\ cpu_info.generation = UNKNOWN
            /\ \A id \in table :
                  cpu_info.thermal_max_safe <= get_thermal_max_safe(id[1], id[2])
            /\ \A range \in ranges :
                  cpu_info.max_freq_mhz - cpu_info.min_freq_mhz <= range[2] - range[1]

(***************************************************************************)
(* Claims about sensor detection and the fans (checked under SpecMonitor)  *)
(***************************************************************************)
\* C18: during sensor detection a failure in one backend produces zero
\* readings from that backend and never prevents the remaining backends
\* from running and contributing their readings.
C18_BackendFailureIsolated ==
    \A m \in Machines :
        sensors = detect_all_sensors(m) =>
            /\ ~sensors.raised
            /\ \A i \in 1..Len(Backends) :
                  LET b == Backends[i]
                  IN  /\ b \in sensors.ran
                      /\ \A k \in 1..Len(Readings[b]) :
                            (m[b] = "ok") <=>
                                \E j \in 1..Len(sensors.list) :
                                    /\ sensors.list[j].chip = Readings[b][k].chip
                                    /\ sensors.list[j].label = Readings[b][k].label
                                    /\ sensors.list[j].type = Readings[b][k].type

\* C19: set_pwm_fan_speed clamps the percent into 0-100 and, when the fan
\* has a mode-select control, a failure to switch the fan to manual mode
\* does not prevent the scaled duty value from being written: whenever the
\* write of the duty file itself goes through, the duty of the clamped
\* percent is what was written.
C19_ManualFailureDoesNotBlockDuty ==
    \A i \in 1..Len(fanCalls) :
        LET call == fanCalls[i]
            duty == (Max(0, Min(100, call.percent)) * 255) \div 100
        IN  \A env \in FanEnvs :
                (/\ call = set_pwm_fan_speed(call.fan, call.percent, env)
                 /\ call.fan <= Len(pwm_fans)
                 /\ env.pwm = "ok")
                    => call.pwm = {duty}

\* C20: after any number of monitoring ticks the in-memory snapshot list
\* holds at most 100 entries and the on-disk JSON trail at most 1000, and
\* each holds exactly the most recent snapshots in arrival order: the
\* timestamps are consecutive and end at the latest snapshot taken.
C20_TrailsHoldMostRecent ==
    /\ Len(snapshots) = Min(arrived, max_snapshots)
    /\ \A i \in 1..Len(snapshots) :
          snapshots[i] = arrived - Len(snapshots) + i
    /\ json_log.valid
    /\ Len(json_log.data) <= JsonTrailCap
    /\ Len(json_log.data) >= Min(arrived, JsonTrailCap)
    /\ \A i \in 1..Len(json_log.data) :
          json_log.data[i] = arrived - Len(json_log.data) + i

(***************************************************************************)
(* Further claims about SmartThermalManager (checked under SpecThermal)    *)
(***************************************************************************)
\* bands at least as hot as the warning band
WarningOrHotter == {"warning", "high-risk", "emergency"}

\* C21: a tick in the warning band increments the escalation counter only if
\* the previous tick was in the warning band or a hotter one; a tick that
\* enters the band from a cooler band (or is the first tick) leaves the
\* counter alone.
C21_IncrementOnlyWhenAlreadyHot ==
    [][(/\ lastOp' = "tick"
        /\ Band(lastTemp') = "warning"
        /\ escalation_count' > escalation_count)
          => (ticks > 0 /\ Band(lastTemp) \in WarningOrHotter)]_vars

C24_MsrOnlyForKnownGenerationWithinTolerance ==
    LET universal == freqCall.manager = "universal"
        table == IF universal THEN CORE2_QUAD_MULTIPLIERS ELSE q9550_multipliers
        t == IF universal THEN Clamp(freqCall.target, cpu_info) ELSE freqCall.target
        nearest == Closest(DOMAIN table, t)
    IN  /\ (freqCall.method = "msr" /\ freqCall.result) =>
              /\ cpu_info.generation = CORE2
              /\ Abs(nearest - t) <= 200
              /\ freqCall.written = {nearest}
        /\ (freqCall.method = "msr" /\ Abs(nearest - t) > 200) =>
              (~freqCall.result /\ freqCall.written = NoWrite)

(***************************************************************************)
(* Claims about the example workloads (checked under SpecChecks)           *)
(***************************************************************************)
\* C25: a thermal_safety_check call that is over has returned a verdict:
\* when the temperature stays between the pause threshold and the critical
\* one on every re-check, the call ends after a bounded number of re-checks
\* with the explicit outcome False (still unsafe), never in any other way.
C25_RecheckEndsWithVerdict ==
    checkPc \notin {"idle", "reading", "cooling"} => verdict # <<>>

(***************************************************************************)
(* Claims about the thermal loop's threads (checked under SpecThreads)     *)
(***************************************************************************)
\* C26: under every interleaving of start_monitoring and stop_monitoring
\* calls with the loop threads, at most one thread is inside
\* thermal_monitoring_loop at any time.
C26_AtMostOneLoopThread == Cardinality(LiveLoops) <= 1

(***************************************************************************)
(* Further claims about SmartThermalManager's counter and recorded mode    *)
(* (checked under SpecThermal)                                             *)
(***************************************************************************)
\* C27: in every reachable state the escalation counter lies between 0 and
\* its maximum sentinel 10.
C27_CounterWithinSentinel ==
    escalation_count \in 0..MaxEscalationSentinel

\* C28: while the temperature stays below the comfort threshold and every
\* profile command succeeds, the escalation counter reaches 0.  A tick is a
\* function of the mode, the counter, the band and the command's exit, so a
\* tick below comfort that leaves mode and counter as they were is repeated
\* by every later such tick; the counter can reach 0 only if such a tick
\* finds it at 0.
C28_CoolingReachesZero ==
    [][(/\ lastOp' = "tick"
        /\ lastTemp' < comfort_temp
        /\ requested' # None => applied'
        /\ current_mode' = current_mode
        /\ escalation_count' = escalation_count)
          => escalation_count = 0]_vars

\* C29: the recorded mode changes only in an operation whose profile command
\* exits with status 0, and then to the mode that command requested; an
\* operation that runs no command, or whose command fails (non-zero exit,
\* timeout, exception), leaves it as it was.  The recorded mode is therefore
\* the initial BALANCED or the mode of the latest successful command.
C29_ModeRecordedOnlyOnSuccess ==
    /\ [](lastOp = "init" => current_mode = BALANCED)
    /\ [][current_mode' = IF requested' # None /\ applied'
                          THEN requested'
                          ELSE current_mode]_vars

\* a set_power_profile call has failed and left an earlier power-saver in place
C29_Witness ==
    /\ lastOp = "set_power_profile"
    /\ requested = PERFORMANCE
    /\ ~applied
    /\ current_mode = POWER_SAVE

(***************************************************************************)
(* Claims about CustomPowerProfilesDaemon (checked under SpecDaemon)       *)
(***************************************************************************)
\* C30: the ids HoldProfile returned for the holds that are live are
\* pairwise different, and ReleaseProfile(id) removes exactly the hold for
\* which HoldProfile returned id, leaving every other hold in place.
C30_HoldIdsIdentifyHolds ==
    [][/\ \A i, j \in 1..Len(holds') :
             holds'[i].returned = holds'[j].returned => i = j
       /\ hold_op'[1].op = "ReleaseProfile" =>
             holds' = SelectSeq(holds, LAMBDA h : h.returned # hold_op'[1].hold_id)]_vars

====
